---- MODULE Spec2Model ----
(***************************************************************************)
(* Model of the counterfactual search engine of dice_ml:                   *)
(*   explainer_interfaces/explainer_base.py  (ExplainerBase: independent   *)
(*       sampling search, target resolution, sparsity refiner)             *)
(*   explainer_interfaces/dice_genetic.py    (DiceGenetic: genetic search) *)
(*                                                                         *)
(* Arithmetic is fixed point.  A normalized field value, a prediction and  *)
(* a threshold are integers counting hundredths (NormScale = 100 is 1.0).  *)
(***************************************************************************)
EXTENDS Integers, Sequences, FiniteSets, TLC

VARIABLES
    self,       \* the explainer object: its attributes, under the source's names
    di,         \* data_interface: the state the explainer changes (permitted_range)
    call,       \* the generate_counterfactuals call in progress: arguments and locals
    pc,         \* where that call stands: "idle", "loop", "posthoc", "returned", "raised"
    rng,        \* the process-wide pseudo-random state: [seed, pos]
    h_pc,       \* pure functions applied to bounded inputs: which one was applied
    h_in,       \* ... its arguments
    h_out       \* ... what it returned

vars == <<self, di, call, pc, rng, h_pc, h_in, h_out>>

-----------------------------------------------------------------------------
(* Arithmetic helpers *)

Abs(x) == IF x < 0 THEN -x ELSE x

\* np.sign
Sign(x) == IF x > 0 THEN 1 ELSE IF x < 0 THEN -1 ELSE 0

Min(a, b) == IF a <= b THEN a ELSE b

Max(a, b) == IF a >= b THEN a ELSE b

RECURSIVE Pow10(_)
Pow10(n) == IF n <= 0 THEN 1 ELSE 10 * Pow10(n - 1)

\* 1.0 in fixed point: values are hundredths
NormScale == Pow10(2)

\* 10 ** -decimal_prec, in hundredths (decimal_prec in 0..2)
PrecUnit(p) == NormScale \div Pow10(p)

\* Python round(v, p) of the value num/2 hundredths (num is the doubled value, so
\* that the midpoint of two grid values is exact): nearest multiple of
\* PrecUnit(p), ties to the even multiple.
RoundHalves(num, p) ==
    LET u == PrecUnit(p)
        q == num \div (2 * u)
        r == num % (2 * u)
    IN  IF r < u THEN q * u
        ELSE IF r > u THEN (q + 1) * u
        ELSE IF q % 2 = 0 THEN q * u ELSE (q + 1) * u

RECURSIVE Log2Ceil(_)
\* least n with 2^n >= x
Log2Ceil(x) == IF x <= 1 THEN 0 ELSE 1 + Log2Ceil((x + 1) \div 2)

-----------------------------------------------------------------------------
(* The prediction oracle (model_interface.get_output): an external, deterministic
   function of the encoded vector.  The oracles the model runs with: *)

Clamp(v) == Max(0, Min(NormScale, v))

Oracles == {"x0", "inv", "tent", "mix"}

MonotoneOracles == {"x0", "inv"}

\* predict_fn: probability of the positive class, in hundredths
Predict(o, x) ==
    CASE o = "x0"   -> Clamp(x[1])
      [] o = "inv"  -> NormScale - Clamp(x[1])
      [] o = "tent" -> NormScale - 2 * Abs(Clamp(x[1]) - NormScale \div 2)
      [] o = "mix"  -> (Clamp(x[1]) + Clamp(x[2])) \div 2

-----------------------------------------------------------------------------
(* Validity tests, as the code writes them *)

\* lines 128, 241-242: the validity predicate (threshold included)
IsValid(cls, thr, pred) ==
    \/ cls = 0 /\ pred <= thr
    \/ cls = 1 /\ pred >= thr

\* lines 407-408, 431, 451, 470: strictly on the desired side
StrictlyInside(cls, thr, pred) ==
    \/ cls = 0 /\ pred < thr
    \/ cls = 1 /\ pred > thr

\* lines 232-233, 414: strictly on the wrong side
StrictlyOutside(cls, thr, pred) ==
    \/ cls = 0 /\ pred > thr
    \/ cls = 1 /\ pred < thr

-----------------------------------------------------------------------------
(* Target resolution *)

RawThresholds == {25, 40, 50, 60, 75}

ForcedLow == 25

ForcedHigh == 75

\* desired_class as the caller writes it: "opposite", or the class 0 or 1
DesiredClasses == {"opposite", "0", "1"}

ClassNumber(d) == IF d = "1" THEN 1 ELSE 0

\* Python round() of a probability in [0, 1]: half to even, so round(0.5) = 0
RoundProb(p0) == IF 2 * p0 > NormScale THEN 1 ELSE 0

\* a resolution that also replaces a threshold of exactly 0.5
ResolveTargetInclusive(desired_class, stopping_threshold, test_pred) ==
    LET cls == IF desired_class = "opposite" THEN 1 - RoundProb(test_pred)
               ELSE ClassNumber(desired_class)
        thr == IF cls = 0 /\ 2 * stopping_threshold >= NormScale THEN ForcedLow
               ELSE IF cls = 1 /\ 2 * stopping_threshold <= NormScale THEN ForcedHigh
               ELSE stopping_threshold
    IN  [cls |-> cls, thr |-> thr]

\* ExplainerBase.generate_counterfactuals, lines 107-117
ResolveTargetSampling(desired_class, stopping_threshold, test_pred) ==
    LET cls == IF desired_class = "opposite" THEN 1 - RoundProb(test_pred)
               ELSE ClassNumber(desired_class)
        thr == IF cls = 0 /\ 2 * stopping_threshold > NormScale THEN ForcedLow
               ELSE IF cls = 1 /\ 2 * stopping_threshold < NormScale THEN ForcedHigh
               ELSE stopping_threshold
    IN  [cls |-> cls, thr |-> thr]

\* a resolution that forces the threshold whenever it is not beyond 0.5 on the
\* side of the class
ResolveTargetForced(desired_class, stopping_threshold, test_pred) ==
    LET cls == IF desired_class = "opposite" THEN 1 - RoundProb(test_pred)
               ELSE ClassNumber(desired_class)
        thr == IF cls = 0 /\ 2 * stopping_threshold >= NormScale THEN ForcedLow
               ELSE IF cls = 1 /\ 2 * stopping_threshold <= NormScale THEN ForcedHigh
               ELSE stopping_threshold
    IN  [cls |-> cls, thr |-> thr]

\* DiceGenetic.find_counterfactuals, lines 212-222
ResolveTargetGenetic(desired_class, stopping_threshold, test_pred) ==
    LET cls == IF desired_class = "opposite" THEN 1 - RoundProb(test_pred)
               ELSE ClassNumber(desired_class)
        thr == IF cls = 0 /\ 2 * stopping_threshold > NormScale THEN ForcedLow
               ELSE IF cls = 1 /\ 2 * stopping_threshold < NormScale THEN ForcedHigh
               ELSE stopping_threshold
    IN  [cls |-> cls, thr |-> thr]

-----------------------------------------------------------------------------
(* Sparsity refiner: the two local searches.  c is the call's context:
   c.oracle, c.cls, c.thr (resolved target), c.prec (decimal_prec[feat_ix]),
   c.change (line 405, in hundredths), c.query, c.feat_ix.  A search returns
   the counterfactual it leaves and the number of oracle calls it made. *)

SetField(x, j, v) == [x EXCEPT ![j] = v]

RECURSIVE LinearLoop(_, _, _, _, _, _)
\* do_linear_search, the while loop of lines 406-419
LinearLoop(c, x, diff, old_diff, current_pred, calls) ==
    IF /\ Abs(diff) >= 1                    \* abs(diff) > 10e-4 on the grid
       /\ Sign(diff) * Sign(old_diff) > 0
       /\ StrictlyInside(c.cls, c.thr, current_pred)
    THEN LET old_val == x[c.feat_ix]
             x2 == SetField(x, c.feat_ix, old_val + Sign(diff) * c.change)
             pred == Predict(c.oracle, x2)
         IN  IF StrictlyOutside(c.cls, c.thr, pred)
             THEN [cf |-> SetField(x2, c.feat_ix, old_val), calls |-> calls + 1]
             ELSE LinearLoop(c, x2, c.query[c.feat_ix] - x2[c.feat_ix], diff,
                             pred, calls + 1)
    ELSE [cf |-> x, calls |-> calls]

\* do_linear_search, lines 401-421
do_linear_search(c, x, diff, current_pred) ==
    LinearLoop(c, x, diff, diff, current_pred, 0)

RECURSIVE BinaryUp(_, _, _, _, _)
\* do_binary_search, diff > 0: lines 441-454
BinaryUp(c, x, left, right, calls) ==
    IF left <= right
    THEN LET current_val == RoundHalves(2 * left + (right - left), c.prec)
             x2 == SetField(x, c.feat_ix, current_val)
             pred == Predict(c.oracle, x2)
         IN  IF current_val = right \/ current_val = left
             THEN [cf |-> x2, calls |-> calls + 1]
             ELSE IF StrictlyInside(c.cls, c.thr, pred)
             THEN BinaryUp(c, x2, current_val + PrecUnit(c.prec), right, calls + 1)
             ELSE BinaryUp(c, x2, left, current_val - PrecUnit(c.prec), calls + 1)
    ELSE [cf |-> x, calls |-> calls]

RECURSIVE BinaryDown(_, _, _, _, _)
\* do_binary_search, diff <= 0: lines 460-473
BinaryDown(c, x, left, right, calls) ==
    IF right >= left
    THEN LET current_val == RoundHalves(2 * right - (right - left), c.prec)
             x2 == SetField(x, c.feat_ix, current_val)
             pred == Predict(c.oracle, x2)
         IN  IF current_val = right \/ current_val = left
             THEN [cf |-> x2, calls |-> calls + 1]
             ELSE IF StrictlyInside(c.cls, c.thr, pred)
             THEN BinaryDown(c, x2, left, current_val - PrecUnit(c.prec), calls + 1)
             ELSE BinaryDown(c, x2, current_val + PrecUnit(c.prec), right, calls + 1)
    ELSE [cf |-> x, calls |-> calls]

\* do_binary_search, lines 423-475
do_binary_search(c, x, diff, current_pred) ==
    LET atQuery == SetField(x, c.feat_ix, c.query[c.feat_ix])
    IN  IF StrictlyInside(c.cls, c.thr, Predict(c.oracle, atQuery))
        THEN [cf |-> atQuery, calls |-> 1]
        ELSE IF diff > 0
        THEN BinaryUp(c, x, x[c.feat_ix], c.query[c.feat_ix], 1)
        ELSE BinaryDown(c, x, c.query[c.feat_ix], x[c.feat_ix], 1)

-----------------------------------------------------------------------------
(* The data interface (external collaborator).  Fields 1 and 2 are continuous,
   field 3 is categorical with two levels.  A value in original units is an
   integer counting precision units (10 ** -precision) of its field. *)

feature_names == <<1, 2, 3>>

continuous_feature_names == <<1, 2>>

\* the one-hot / label block of the categorical field
encoded_categorical_feature_indexes == <<<<3>>>>

encoded_continuous_feature_indexes == <<1, 2>>

IsContinuous(j) == \E i \in DOMAIN continuous_feature_names : continuous_feature_names[i] = j

\* the training data sets the model runs with: decimal precision, original range
\* (in precision units), and the statistics the refiner and the weights read
DataSets == {"unit", "tens"}

Precisions(d) == IF d = "unit" THEN <<2, 2>> ELSE <<0, 1>>

OrgMin(d) == <<0, 0>>

OrgMax(d) == IF d = "unit" THEN <<100, 100>> ELSE <<10, 100>>

\* get_quantiles_from_training_data(quantile=0.1, normalized=True), hundredths
Quantiles(d) == IF d = "unit" THEN <<30, 20>> ELSE <<10, 50>>

\* get_valid_mads(normalized=True), hundredths
Mads(d) == IF d = "unit" THEN <<25, 40>> ELSE <<20, 50>>

\* the categorical vocabulary seen in training, label encoded and normalized
Vocabulary == <<0, NormScale>>

\* normalization of an original value of continuous field j (min-max scaling)
Normalize(d, j, v) == ((v - OrgMin(d)[j]) * NormScale) \div (OrgMax(d)[j] - OrgMin(d)[j])

\* data_interface.permitted_range right after the data interface is built: the
\* training range of every continuous field
DefaultRange(d) == [j \in {1, 2} |-> <<OrgMin(d)[j], OrgMax(d)[j]>>]

\* data_interface.check_features_range(): takes no argument, so it judges the range
\* the data interface holds when it is called
check_features_range(d, permitted_range) ==
    \A j \in {1, 2} : /\ permitted_range[j][1] >= OrgMin(d)[j]
                      /\ permitted_range[j][2] <= OrgMax(d)[j]

\* data_interface.get_minx_maxx(normalized=True): the normalized permitted bounds
\* of the continuous fields, 0 and 1 for the categorical one
get_minx(d, permitted_range) ==
    [j \in 1..3 |-> IF j = 3 THEN 0 ELSE Normalize(d, j, permitted_range[j][1])]

get_maxx(d, permitted_range) ==
    [j \in 1..3 |-> IF j = 3 THEN NormScale ELSE Normalize(d, j, permitted_range[j][2])]

-----------------------------------------------------------------------------
(* Pseudo-random numbers.  random and np.random are deterministic generators
   with process-wide state; the model's generator is a small hash of the seed
   and the position in the stream.  Rand is in 0..1012. *)

Rand(seed, i) ==
    LET r == (389 * (i + 1) + 631 * (seed + 1)) % 1009
    IN  ((r * r * 31) + (r * 7) + (seed * 13) + i) % 1013

\* random.random(), in hundredths: 0..99
RandomPercent(seed, i) == Rand(seed, i) % NormScale

\* np.random.uniform(lo, hi) on the grid of hundredths
RandomUniform(seed, i, lo, hi) ==
    IF hi <= lo THEN lo ELSE lo + (Rand(seed, i) % (hi - lo + 1))

\* random.choice(range(n)), 1-based
RandomIndex(seed, i, n) == 1 + (Rand(seed, i) % n)

-----------------------------------------------------------------------------
(* Loss model (DiceGenetic).  Losses are fixed point with four decimals
   (LossScale = 10000 is 1.0); the weights are tenths, so the combined loss has
   five decimals. *)

LossScale == NormScale * NormScale

RECURSIVE SumTo(_, _)
\* f[1] + ... + f[n]
SumTo(f, n) == IF n = 0 THEN 0 ELSE f[n] + SumTo(f, n - 1)

\* -ln(|p - 0.000001|) for p = 0.00, 0.01, ..., 1.00, four decimals
NegLnP ==
    <<138155, 46053, 39121, 35066, 32189, 29958, 28134, 26593, 25257, 24080,
       23026, 22073, 21203, 20402, 19661, 18971, 18326, 17720, 17148, 16607,
       16094, 15607, 15141, 14697, 14271, 13863, 13471, 13093, 12730, 12379,
       12040, 11712, 11394, 11087, 10788, 10498, 10217, 9943, 9676, 9416,
       9163, 8916, 8675, 8440, 8210, 7985, 7765, 7550, 7340, 7134,
       6931, 6733, 6539, 6349, 6162, 5978, 5798, 5621, 5447, 5276,
       5108, 4943, 4780, 4620, 4463, 4308, 4155, 4005, 3857, 3711,
       3567, 3425, 3285, 3147, 3011, 2877, 2744, 2614, 2485, 2357,
       2231, 2107, 1985, 1863, 1744, 1625, 1508, 1393, 1278, 1165,
       1054, 943, 834, 726, 619, 513, 408, 305, 202, 101,
       0>>

\* -ln(1 - |p - 0.000001|) for p = 0.00, 0.01, ..., 1.00, four decimals
NegLn1mP ==
    <<0, 100, 202, 305, 408, 513, 619, 726, 834, 943,
       1054, 1165, 1278, 1393, 1508, 1625, 1744, 1863, 1984, 2107,
       2231, 2357, 2485, 2614, 2744, 2877, 3011, 3147, 3285, 3425,
       3567, 3711, 3857, 4005, 4155, 4308, 4463, 4620, 4780, 4943,
       5108, 5276, 5447, 5621, 5798, 5978, 6162, 6349, 6539, 6733,
       6931, 7133, 7340, 7550, 7765, 7985, 8210, 8440, 8675, 8916,
       9163, 9416, 9676, 9942, 10216, 10498, 10788, 11087, 11394, 11712,
       12040, 12379, 12730, 13093, 13471, 13863, 14271, 14697, 15141, 15606,
       16094, 16607, 17148, 17720, 18326, 18971, 19661, 20402, 21203, 22073,
       23026, 24079, 25257, 26592, 28134, 29957, 32189, 35065, 39120, 46051,
       138155>>

\* one member's term of compute_yloss, lines 88-97; t is target_cf_class
YlossTerm(yloss_type, pred, t) ==
    LET logit == NegLn1mP[pred + 1] - NegLnP[pred + 1]
    IN  CASE yloss_type = "l2_loss" -> (pred - t * NormScale) * (pred - t * NormScale)
          [] yloss_type = "log_loss" ->
                t * NegLnP[pred + 1] + (1 - t) * NegLn1mP[pred + 1]
          [] yloss_type = "hinge_loss" -> Max(0, LossScale - logit * t)

\* compute_yloss, lines 84-100
compute_yloss(o, yloss_type, t, total_CFs, cfs) ==
    SumTo([i \in 1..total_CFs |-> YlossTerm(yloss_type, Predict(o, cfs[i]), t)],
          total_CFs) \div total_CFs

\* compute_dist, lines 102-104: weights are hundredths, the distance has four decimals
compute_dist(w, x_hat, x1) ==
    SumTo([j \in 1..Len(w) |-> Abs(x_hat[j] - x1[j]) * w[j]], Len(w))

\* compute_proximity_loss, lines 106-111
compute_proximity_loss(w, total_CFs, x1, num_dims, cfs) ==
    SumTo([i \in 1..total_CFs |-> compute_dist(w, cfs[i], x1)], total_CFs)
        \div num_dims

\* 1.0 / (1.0 + dist), four decimals
InverseDist(dist) == (LossScale * LossScale) \div (LossScale + dist)

DiagonalEpsilon == 1

\* a kernel with 0.0001 added to every entry
DppEntryEverywhere(w, cfs, i, j) ==
    InverseDist(compute_dist(w, cfs[i], cfs[j])) + DiagonalEpsilon

\* dpp_style("inverse_dist"), lines 113-133, for total_CFs = 2: the kernel entry
\* (i, j) with four decimals
DppEntry(w, cfs, i, j) ==
    InverseDist(compute_dist(w, cfs[i], cfs[j])) + (IF i = j THEN DiagonalEpsilon ELSE 0)

\* np.linalg.det of the 2 x 2 kernel, eight decimals
dpp_style(w, cfs) ==
    DppEntry(w, cfs, 1, 1) * DppEntry(w, cfs, 2, 2)
        - DppEntry(w, cfs, 1, 2) * DppEntry(w, cfs, 2, 1)

\* the avg_dist branch, lines 143-152
AvgDist(w, total_CFs, cfs) ==
    LET similarity ==
            SumTo([i \in 1..total_CFs |->
                     SumTo([j \in 1..total_CFs |->
                              IF j > i
                              THEN InverseDist(compute_dist(w, cfs[i], cfs[j]))
                              ELSE 0], total_CFs)], total_CFs)
        count == (total_CFs * (total_CFs - 1)) \div 2
    IN  LossScale - (similarity \div count)

\* a diversity loss without the early return for a set of one member: the
\* determinant of the 1 x 1 kernel
compute_diversity_unguarded(w, diversity_loss_type, total_CFs, cfs) ==
    IF total_CFs = 1 THEN DppEntry(w, cfs, 1, 1)
    ELSE IF diversity_loss_type = "dpp_style:inverse_dist"
         THEN dpp_style(w, cfs) \div LossScale
         ELSE AvgDist(w, total_CFs, cfs)

\* compute_diversity_loss, lines 135-152, four decimals
compute_diversity_loss(w, diversity_loss_type, total_CFs, cfs) ==
    IF total_CFs = 1 THEN 0
    ELSE IF diversity_loss_type = "dpp_style:inverse_dist"
         THEN dpp_style(w, cfs) \div LossScale
         ELSE AvgDist(w, total_CFs, cfs)

\* compute_regularization_loss, lines 154-161
compute_regularization_loss(total_CFs, cfs) ==
    SumTo([i \in 1..total_CFs |->
              (cfs[i][3] - NormScale) * (cfs[i][3] - NormScale)], total_CFs)

\* compute_loss, lines 163-175; e is the explainer object.  Five decimals.
compute_loss(o, e, cfs) ==
    LET yloss == compute_yloss(o, e.yloss_type, e.target_cf_class, e.total_CFs, cfs)
        proximity_loss ==
            IF e.proximity_weight > 0
            THEN compute_proximity_loss(e.feature_weights_list, e.total_CFs, e.x1,
                                        Len(e.minx), cfs)
            ELSE 0
        diversity_loss ==
            IF e.diversity_weight > 0
            THEN compute_diversity_loss(e.feature_weights_list, e.diversity_loss_type,
                                        e.total_CFs, cfs)
            ELSE 0
        regularization_loss == compute_regularization_loss(e.total_CFs, cfs)
    IN  10 * yloss + e.proximity_weight * proximity_loss
            - e.diversity_weight * diversity_loss
            + e.categorical_penalty * regularization_loss

-----------------------------------------------------------------------------
(* The explainer object *)

\* dice_genetic.py line 44 sets 100.  The model runs the same code with a
\* population of 10, the smallest for which int(10%) + int(90%) of the population
\* is a whole population again.
population_size == 10

NumFeatures == Len(feature_names)

FeatureNames == <<"f1", "f2", "c1">>

\* features_to_vary = "all"
AllFeatures == <<"all">>

\* data_interface.get_indexes_of_features_to_vary
get_indexes_of_features_to_vary(features_to_vary) ==
    IF features_to_vary = AllFeatures THEN 1..NumFeatures
    ELSE {j \in 1..NumFeatures :
            \E n \in DOMAIN features_to_vary : features_to_vary[n] = FeatureNames[j]}

\* prepare_query_instance: the query in the explainer's encoding, normalized
Encode(d, q) == <<Normalize(d, 1, q[1]), Normalize(d, 2, q[2]), Vocabulary[q[3]]>>

\* ExplainerBase.__init__ lines 23-39 and DiceGenetic.__init__ lines 36-44.  An
\* attribute the constructors do not set is absent until a call sets it: `attrs`
\* lists the attributes that exist among those read before they may be set.
NewExplainer(class, d, o) ==
    [class |-> class, model |-> o,
     attrs |-> {},
     total_random_inits |-> 0,
     minx |-> get_minx(d, DefaultRange(d)), maxx |-> get_maxx(d, DefaultRange(d)),
     cont_minx |-> OrgMin(d), cont_maxx |-> OrgMax(d),
     cont_precisions |-> Precisions(d),
     cfs |-> <<>>, features_to_vary |-> <<>>, freezer |-> <<>>,
     cf_init_weights |-> <<>>, loss_weights |-> <<>>,
     feature_weights_input |-> "", hyperparameters |-> <<10, 10, 10>>,
     total_CFs |-> 0,
     proximity_weight |-> 0, diversity_weight |-> 0, categorical_penalty |-> 0,
     yloss_type |-> "", diversity_loss_type |-> "", feature_weights_list |-> <<>>,
     fixed_features_values |-> <<>>,
     x1 |-> <<>>, target_cf_class |-> 0, stopping_threshold |-> 0,
     valid_cfs_found |-> FALSE, total_cfs_found |-> 0,
     final_cfs |-> <<>>, cfs_preds |-> <<>>,
     sparse_is_none |-> TRUE, final_cfs_sparse |-> <<>>, cfs_preds_sparse |-> <<>>]

\* check_permitted_range, lines 252-265 (DiceGenetic); pr is <<>> for None, else
\* <<ranges>>.  The check raises when check_features_range() is false.
PermittedRangeRaises(d, stored, pr) ==
    pr # <<>> /\ ~check_features_range(d, stored)

\* the data interface's permitted_range after check_permitted_range returned
GeneticPermittedRange(stored, pr) == IF pr = <<>> THEN stored ELSE pr[1]

\* the explainer after check_permitted_range returned, lines 259-265
check_permitted_range(e, d, pr) ==
    IF pr = <<>> THEN e
    ELSE [e EXCEPT !.minx = get_minx(d, pr[1]), !.maxx = get_maxx(d, pr[1]),
                   !.cont_minx = <<pr[1][1][1], pr[1][2][1]>>,
                   !.cont_maxx = <<pr[1][1][2], pr[1][2][2]>>]

\* the number of draws do_cf_initializations takes from np.random
SeedDraws(e, total_CFs, algorithm) ==
    LET size == IF algorithm = "RandomInitCF" THEN 1 ELSE total_CFs
    IN  IF Len(e.cfs) # size THEN population_size * size * NumFeatures ELSE 0

\* do_cf_initializations, lines 272-302; the draws are np.random's, from
\* position pos of the stream of seed
do_cf_initializations(e, total_CFs, algorithm, features_to_vary, seed, pos) ==
    LET size == IF algorithm = "RandomInitCF" THEN 1 ELSE total_CFs
        idxs == get_indexes_of_features_to_vary(features_to_vary)
        draw(kx, ix, jx) ==
            RandomUniform(2 * seed,
                          pos + ((kx - 1) * size + (ix - 1)) * NumFeatures + (jx - 1),
                          e.minx[jx], e.maxx[jx])
    IN  [e EXCEPT
           !.cf_init_weights = <<total_CFs, algorithm, features_to_vary>>,
           !.total_random_inits = IF algorithm = "RandomInitCF" THEN total_CFs ELSE 0,
           !.total_CFs = size,
           !.features_to_vary = features_to_vary,
           !.freezer = IF features_to_vary # e.features_to_vary
                       THEN [jx \in 1..Len(e.minx) |-> IF jx \in idxs THEN 1 ELSE 0]
                       ELSE e.freezer,
           !.cfs = IF Len(e.cfs) # size
                   THEN [kx \in 1..population_size |->
                           [ix \in 1..size |->
                              [jx \in 1..NumFeatures |-> draw(kx, ix, jx)]]]
                   ELSE e.cfs]

\* feature_weights as the caller writes it: "inverse_mad", or an explicit
\* dictionary ("ones": weight 1.0 for f1 and f2)
FeatureWeightsList(d, feature_weights) ==
    IF feature_weights = "inverse_mad"
    THEN <<(NormScale * NormScale) \div Mads(d)[1],
           (NormScale * NormScale) \div Mads(d)[2], NormScale>>
    ELSE <<NormScale, NormScale, NormScale>>

\* do_loss_initializations(..., encoding='label'), lines 304-334
do_loss_initializations(e, d, yloss_type, diversity_loss_type, feature_weights) ==
    [e EXCEPT
       !.loss_weights = <<yloss_type, diversity_loss_type, feature_weights>>,
       !.yloss_type = yloss_type,
       !.diversity_loss_type = diversity_loss_type,
       !.feature_weights_input = feature_weights,
       !.feature_weights_list = IF feature_weights # e.feature_weights_input
                                THEN FeatureWeightsList(d, feature_weights)
                                ELSE e.feature_weights_list]

\* update_hyperparameters, lines 347-353
update_hyperparameters(e, proximity_weight, diversity_weight, categorical_penalty) ==
    [e EXCEPT
       !.hyperparameters = <<proximity_weight, diversity_weight, categorical_penalty>>,
       !.proximity_weight = proximity_weight,
       !.diversity_weight = diversity_weight,
       !.categorical_penalty = categorical_penalty,
       !.attrs = e.attrs \cup {"proximity_weight", "diversity_weight",
                               "categorical_penalty"}]

\* do_param_initializations, lines 339-345; a is the call's arguments
do_param_initializations(e, d, a, seed, pos) ==
    LET e1 == IF <<a.total_CFs, a.algorithm, a.features_to_vary>> # e.cf_init_weights
              THEN do_cf_initializations(e, a.total_CFs, a.algorithm,
                                         a.features_to_vary, seed, pos)
              ELSE e
        e2 == IF <<a.yloss_type, a.diversity_loss_type, a.feature_weights>>
                    # e1.loss_weights
              THEN do_loss_initializations(e1, d, a.yloss_type, a.diversity_loss_type,
                                           a.feature_weights)
              ELSE e1
    IN  IF <<a.proximity_weight, a.diversity_weight, a.categorical_penalty>>
              # e2.hyperparameters
        THEN update_hyperparameters(e2, a.proximity_weight, a.diversity_weight,
                                    a.categorical_penalty)
        ELSE e2

-----------------------------------------------------------------------------
(* Genetic search engine: DiceGenetic.find_counterfactuals *)

Parent1Below == 45

Parent2Below == 90

\* the number of draws one gene, and one child, take from the streams
ChildDraws(total_CFs) == 2 + total_CFs * NumFeatures

\* a mating that draws once per set member, not once per field
mateMemberWise(e, k1, k2, seed, base) ==
    [i \in 1..e.total_CFs |->
       [jx \in 1..Min(Len(k1[i]), Len(k2[i])) |->
          LET at == base + (i - 1) * NumFeatures
              prob == RandomPercent(2 * seed + 1, at)
          IN  IF prob < Parent1Below THEN k1[i][jx]
              ELSE IF prob < Parent2Below THEN k2[i][jx]
              ELSE RandomUniform(2 * seed, at + (jx - 1), e.minx[jx], e.maxx[jx])]]

\* mate, lines 177-201; the draws start at position base of the streams
mate(e, k1, k2, seed, base) ==
    [i \in 1..e.total_CFs |->
       [jx \in 1..Min(Len(k1[i]), Len(k2[i])) |->
          LET at == base + (i - 1) * NumFeatures + (jx - 1)
              prob == RandomPercent(2 * seed + 1, at)
          IN  IF prob < Parent1Below THEN k1[i][jx]
              ELSE IF prob < Parent2Below THEN k2[i][jx]
              ELSE RandomUniform(2 * seed, at, e.minx[jx], e.maxx[jx])]]

\* lines 232-234: the loss of every set of the population
RECURSIVE FitnessUpTo(_, _, _)
FitnessUpTo(e, population, k) ==
    IF k = 0 THEN <<>>
    ELSE Append(FitnessUpTo(e, population, k - 1),
                compute_loss(e.model, e, population[k]))

PopulationFitness(e, population) == FitnessUpTo(e, population, population_size)

\* lines 236-238: the index of the first set of least loss
BestIndex(fitness) ==
    CHOOSE k \in 1..Len(fitness) :
        /\ \A m \in 1..Len(fitness) : fitness[k] <= fitness[m]
        /\ \A m \in 1..(k - 1) : fitness[m] > fitness[k]

\* current_best_cf
CurrentBest(e, population) == population[BestIndex(PopulationFitness(e, population))]

\* lines 240-242: every member of the set is valid
AllValid(e, cfs) ==
    \/ e.target_cf_class = 0
         /\ \A i \in 1..Len(cfs) : Predict(e.model, cfs[i]) <= e.stopping_threshold
    \/ e.target_cf_class = 1
         /\ \A i \in 1..Len(cfs) : Predict(e.model, cfs[i]) >= e.stopping_threshold

\* line 247: the place of set k in the population sorted by loss (sorted() is
\* stable: sets of equal loss keep their order)
Rank(fitness, k) ==
    1 + Cardinality({m \in 1..Len(fitness) :
                        \/ fitness[m] < fitness[k]
                        \/ fitness[m] = fitness[k] /\ m < k})

\* elites taken from the first places of the population as it stands
AtRankUnsorted(fitness, r) == r

\* the index of the set at place r of the sorted population
AtRank(fitness, r) == CHOOSE k \in 1..Len(fitness) : Rank(fitness, k) = r

\* lines 248, 252, 254: int(10%), int(90%) and int(50%) of the population
EliteCount == (10 * population_size) \div 100

ChildCount == (90 * population_size) \div 100

ParentPool == (50 * population_size) \div 100

\* lines 254-255: random.choice(population[:int(50 * population_size / 100)])
\* for a population of the given size
ParentAt(seed, at, size) == RandomIndex(2 * seed + 1, at, (50 * size) \div 100)

ChooseParent(population, seed, at) == ParentAt(seed, at, population_size)

\* lines 246-259 for a population of the given size
GenerationOfSize(e, population, seed, pos, size) ==
    LET fitness == FitnessUpTo(e, population, size)
        elites == (10 * size) \div 100
        children == (90 * size) \div 100
        base(c) == pos + (c - 1) * ChildDraws(e.total_CFs)
    IN  [n \in 1..(elites + children) |->
           IF n <= elites THEN population[AtRank(fitness, n)]
           ELSE LET c == n - elites
                IN  mate(e, population[ParentAt(seed, base(c), size)],
                         population[ParentAt(seed, base(c) + 1, size)],
                         seed, base(c) + 2)]

\* lines 246-259: the next generation
NextGeneration(e, population, seed, pos) ==
    GenerationOfSize(e, population, seed, pos, population_size)

\* scoring raises: compute_loss reads an attribute that was never set
\* (AttributeError), or compute_yloss indexes past the end of a set (IndexError)
ScoringRaises(e, population) ==
    \/ ~({"proximity_weight", "diversity_weight", "categorical_penalty"} \subseteq e.attrs)
    \/ \E k \in 1..population_size : Len(population[k]) < e.total_CFs

-----------------------------------------------------------------------------
(* Sparsity refiner: do_posthoc_sparsity_enhancement *)

\* lines 218-221: the quantile capped by the MAD, per continuous field
Tolerance(d) == [j \in {1, 2} |-> Min(Quantiles(d)[j], Mads(d)[j])]

\* the continuous fields by ascending tolerance
features_sorted_ascending(d) ==
    IF Tolerance(d)[1] <= Tolerance(d)[2] THEN <<1, 2>> ELSE <<2, 1>>

\* lines 223-225: the continuous fields by descending tolerance (sorted() is
\* stable, so fields of equal tolerance keep their order)
features_sorted(d) ==
    IF Tolerance(d)[1] >= Tolerance(d)[2] THEN <<1, 2>> ELSE <<2, 1>>

\* line 405: the minimal change of a field whose permitted range is `width`
\* precision units wide, in hundredths of the normalized scale
LinearChange(width) == NormScale \div width

\* lines 237-246: one field of one member
RefineField(e, d, algorithm, cf, query_instance, j) ==
    LET c == [oracle |-> e.model, cls |-> e.target_cf_class,
              thr |-> e.stopping_threshold, prec |-> Precisions(d)[j],
              change |-> LinearChange(e.cont_maxx[j] - e.cont_minx[j]),
              query |-> query_instance, feat_ix |-> j]
        current_pred == Predict(e.model, cf)
        diff == query_instance[j] - cf[j]
    IN  IF Abs(diff) <= Tolerance(d)[j]
        THEN IF algorithm = "linear"
             THEN do_linear_search(c, cf, diff, current_pred).cf
             ELSE IF algorithm = "binary"
             THEN do_binary_search(c, cf, diff, current_pred).cf
             ELSE cf
        ELSE cf

\* lines 231-248: one member
RefineMember(e, d, algorithm, cf, query_instance) ==
    IF StrictlyOutside(e.target_cf_class, e.stopping_threshold, Predict(e.model, cf))
    THEN cf
    ELSE RefineField(e, d, algorithm,
                     RefineField(e, d, algorithm, cf, query_instance,
                                 features_sorted(d)[1]),
                     query_instance, features_sorted(d)[2])

\* line 229-230: how many members the refiner visits
RefinedCount(e, final_cfs_sparse) ==
    LET loop_find_CFs == IF e.total_random_inits > 0 THEN e.total_random_inits ELSE 1
    IN  Min(Max(loop_find_CFs, e.total_CFs), Len(final_cfs_sparse))

\* do_posthoc_sparsity_enhancement, lines 208-250
do_posthoc_sparsity_enhancement(e, d, final_cfs_sparse, cfs_preds_sparse, query_instance, algorithm) ==
    LET refined == [ix \in 1..Len(final_cfs_sparse) |->
                      IF ix <= RefinedCount(e, final_cfs_sparse)
                      THEN RefineMember(e, d, algorithm, final_cfs_sparse[ix],
                                        query_instance)
                      ELSE final_cfs_sparse[ix]]
    IN  [cfs |-> refined,
         preds |-> [ix \in 1..Len(final_cfs_sparse) |->
                      IF /\ ix <= RefinedCount(e, final_cfs_sparse)
                         /\ ~StrictlyOutside(e.target_cf_class, e.stopping_threshold,
                                             Predict(e.model, final_cfs_sparse[ix]))
                      THEN Predict(e.model, refined[ix])
                      ELSE cfs_preds_sparse[ix]]]

\* no copy: the stored list is the list the refiner writes into
AliasedAfterPosthoc(stored, refined) == refined

\* copy.deepcopy, lines 148-149 and 266-267: the refiner writes into copies, so a
\* list the search stored is, after the refiner ran, what it was before
StoredAfterPosthoc(stored, refined) == stored

\* lines 147-153 and 265-271; param is <<>> for None, else <<percent>>
PosthocRuns(param) == param # <<>> /\ param[1] > 0

Posthoc ==
    /\ pc = "posthoc"
    /\ LET a == call.args
           out == do_posthoc_sparsity_enhancement(self, di.data, self.final_cfs,
                      self.cfs_preds, call.query_instance,
                      a.posthoc_sparsity_algorithm)
       IN  self' = IF PosthocRuns(a.posthoc_sparsity_param)
                   THEN [self EXCEPT
                           !.final_cfs = StoredAfterPosthoc(self.final_cfs, out.cfs),
                           !.cfs_preds = StoredAfterPosthoc(self.cfs_preds, out.preds),
                           !.sparse_is_none = FALSE,
                           !.final_cfs_sparse = out.cfs,
                           !.cfs_preds_sparse = out.preds]
                   ELSE [self EXCEPT !.sparse_is_none = TRUE,
                                     !.final_cfs_sparse = <<>>,
                                     !.cfs_preds_sparse = <<>>]
    /\ pc' = "returned"
    /\ UNCHANGED <<di, call, rng, h_pc, h_in, h_out>>

-----------------------------------------------------------------------------
(* The calls the model makes.  Arguments are drawn from a base call and its
   variations, each changing a few arguments of the base. *)

MaxCalls == 2

NumSeeds == 3

MaxGenerations == 3

\* query instances in original units: <<f1, f2, level of c1>>
QueryAt(d, n) ==
    IF d = "unit" THEN (IF n = 1 THEN <<20, 60, 1>> ELSE <<80, 40, 2>>)
    ELSE (IF n = 1 THEN <<2, 60, 1>> ELSE <<8, 40, 2>>)

\* a permitted_range override inside the training range of f1 ...
InsideRange(d) ==
    [j \in {1, 2} |-> IF j = 1 THEN <<OrgMin(d)[1], OrgMax(d)[1] \div 2>>
                      ELSE <<OrgMin(d)[2], OrgMax(d)[2]>>]

\* ... and one that reaches beyond it
OutsideRange(d) ==
    [j \in {1, 2} |-> IF j = 1 THEN <<OrgMax(d)[1] \div 2,
                                      OrgMax(d)[1] + (OrgMax(d)[1] \div 2)>>
                      ELSE <<OrgMin(d)[2], OrgMax(d)[2]>>]

BaseArgs(d) ==
    [query_instance |-> QueryAt(d, 1), total_CFs |-> 2, desired_class |-> "opposite",
     proximity_weight |-> 5, diversity_weight |-> 10, categorical_penalty |-> 1,
     algorithm |-> "DiverseCF", features_to_vary |-> AllFeatures,
     permitted_range |-> <<>>, yloss_type |-> "log_loss",
     diversity_loss_type |-> "dpp_style:inverse_dist",
     feature_weights |-> "inverse_mad", stopping_threshold |-> 50,
     posthoc_sparsity_param |-> <<10>>, posthoc_sparsity_algorithm |-> "linear",
     sample_size |-> 0, random_seed |-> 0]

\* variations shared by the two strategies
CommonArgs(b, d) ==
    {b,
     [b EXCEPT !.total_CFs = 1],
     [b EXCEPT !.features_to_vary = <<"f2", "c1">>],
     [b EXCEPT !.desired_class = "1"],
     [b EXCEPT !.desired_class = "0", !.stopping_threshold = 75],
     [b EXCEPT !.desired_class = "1", !.stopping_threshold = 40],
     [b EXCEPT !.query_instance = QueryAt(d, 2)],
     [b EXCEPT !.posthoc_sparsity_param = <<>>],
     [b EXCEPT !.posthoc_sparsity_algorithm = "binary"],
     [b EXCEPT !.permitted_range = <<InsideRange(d)>>],
     [b EXCEPT !.permitted_range = <<OutsideRange(d)>>]}

GeneticArgs(d) ==
    LET b == BaseArgs(d)
    IN  CommonArgs(b, d) \cup
        {[b EXCEPT !.total_CFs = 3, !.diversity_loss_type = "avg_dist"],
         [b EXCEPT !.total_CFs = population_size, !.diversity_loss_type = "avg_dist"],
         [b EXCEPT !.algorithm = "RandomInitCF"],
         [b EXCEPT !.proximity_weight = 10, !.diversity_weight = 10,
                   !.categorical_penalty = 10],
         [b EXCEPT !.yloss_type = "l2_loss"],
         [b EXCEPT !.yloss_type = "hinge_loss"],
         [b EXCEPT !.diversity_loss_type = "avg_dist"],
         [b EXCEPT !.feature_weights = "ones"]}

NoCall == [n |-> 0, args |-> <<>>, query_instance |-> <<>>, test_pred |-> 0,
           population |-> <<>>, generation |-> 0]

CallMayStart == pc \in {"idle", "returned", "raised"} /\ call.n < MaxCalls

\* DiceGenetic.generate_counterfactuals, lines 72-76, and find_counterfactuals up
\* to the loop, lines 208-226.  seed is the state the caller left the generators in.
GeneticCall(a, seed) ==
    /\ self.class = "genetic"
    /\ CallMayStart
    /\ IF PermittedRangeRaises(di.data, di.permitted_range, a.permitted_range)
       THEN /\ pc' = "raised"
            /\ call' = [NoCall EXCEPT !.n = call.n + 1, !.args = a]
            /\ UNCHANGED <<self, di, rng>>
       ELSE LET d == di.data
                e1 == check_permitted_range(self, d, a.permitted_range)
                e2 == do_param_initializations(e1, d, a, seed, 0)
                x1 == Encode(d, a.query_instance)
                test_pred == Predict(self.model, x1)
                target == ResolveTargetGenetic(a.desired_class, a.stopping_threshold,
                                               test_pred)
            IN  /\ di' = [di EXCEPT !.permitted_range =
                              GeneticPermittedRange(di.permitted_range,
                                                    a.permitted_range)]
                /\ self' = [e2 EXCEPT !.x1 = x1, !.target_cf_class = target.cls,
                                      !.stopping_threshold = target.thr]
                /\ call' = [n |-> call.n + 1, args |-> a, query_instance |-> x1,
                            test_pred |-> test_pred, population |-> e2.cfs,
                            generation |-> 0]
                /\ rng' = [seed |-> seed,
                           pos |-> IF e2.cfs # e1.cfs
                                   THEN SeedDraws(e1, a.total_CFs, a.algorithm) ELSE 0]
                /\ pc' = "loop"
    /\ UNCHANGED <<h_pc, h_in, h_out>>

\* a loop that also gives up after MaxGenerations generations
ConvergeOrGiveUp ==
    /\ pc = "loop"
    /\ ~ScoringRaises(self, call.population)
    /\ \/ AllValid(self, CurrentBest(self, call.population))
       \/ call.generation = MaxGenerations
    /\ LET current_best_cf == CurrentBest(self, call.population)
       IN  self' = [self EXCEPT
                      !.valid_cfs_found = TRUE,
                      !.final_cfs = current_best_cf,
                      !.cfs_preds = [i \in 1..Len(current_best_cf) |->
                                       Predict(self.model, current_best_cf[i])]]
    /\ pc' = "posthoc"
    /\ UNCHANGED <<di, call, rng, h_pc, h_in, h_out>>

\* lines 229-244 and 261-262: the best set is valid, the loop is left
Converge ==
    /\ pc = "loop"
    /\ ~ScoringRaises(self, call.population)
    /\ AllValid(self, CurrentBest(self, call.population))
    /\ LET current_best_cf == CurrentBest(self, call.population)
       IN  self' = [self EXCEPT
                      !.valid_cfs_found = TRUE,
                      !.final_cfs = current_best_cf,
                      !.cfs_preds = [i \in 1..Len(current_best_cf) |->
                                       Predict(self.model, current_best_cf[i])]]
    /\ pc' = "posthoc"
    /\ UNCHANGED <<di, call, rng, h_pc, h_in, h_out>>

\* lines 229-242 and 246-259: the best set is not valid, the next generation
Evolve ==
    /\ pc = "loop"
    /\ ~ScoringRaises(self, call.population)
    /\ ~AllValid(self, CurrentBest(self, call.population))
    /\ call.generation < MaxGenerations
    /\ call' = [call EXCEPT
                  !.population = NextGeneration(self, call.population, rng.seed, rng.pos),
                  !.generation = call.generation + 1]
    /\ rng' = [rng EXCEPT !.pos = rng.pos + ChildCount * ChildDraws(self.total_CFs)]
    /\ UNCHANGED <<self, di, pc, h_pc, h_in, h_out>>

\* lines 232-233: compute_loss raises, the call ends with the exception
ScoreRaises ==
    /\ pc = "loop"
    /\ ScoringRaises(self, call.population)
    /\ pc' = "raised"
    /\ UNCHANGED <<self, di, call, rng, h_pc, h_in, h_out>>

SampleSize == 4

DrawsPerUnit == 3

SamplingArgs(d) ==
    {[a EXCEPT !.sample_size = SampleSize, !.random_seed = seed] :
        a \in CommonArgs(BaseArgs(d), d), seed \in 0..(NumSeeds - 1)}

\* round(r, precision) of a draw v, counted in parts of a precision unit: the
\* nearest unit, the even one on a tie
RoundToUnit(v) ==
    LET k == v \div DrawsPerUnit
        rem == v % DrawsPerUnit
    IN  IF 2 * rem < DrawsPerUnit THEN k
        ELSE IF 2 * rem > DrawsPerUnit THEN k + 1
        ELSE IF k % 2 = 0 THEN k ELSE k + 1

\* get_continuous_samples, lines 389-399; low, high and the result are in precision
\* units.  randint(low, high+1) draws an integer of low..high; uniform(low,
\* high + 10**-precision) draws from [low, high + one unit) and is then rounded.
get_continuous_samples(low, high, precision, size, seed) ==
    [i \in 1..size |->
       IF precision = 0 THEN low + (Rand(2 * seed, i - 1) % (high + 1 - low))
       ELSE low + RoundToUnit(Rand(2 * seed, i - 1) % (DrawsPerUnit * (high + 1 - low)))]

\* get_samples, lines 358-386: row i of the samples, in original units.  Both
\* generators are seeded anew for every feature.
get_samples(d, permitted_range, fixed_features_values, seed, size) ==
    [i \in 1..size |->
       [j \in 1..NumFeatures |->
          IF fixed_features_values[j] # <<>> THEN fixed_features_values[j][1]
          ELSE IF IsContinuous(j)
               THEN get_continuous_samples(permitted_range[j][1], permitted_range[j][2],
                                           Precisions(d)[j], size, seed)[i]
               ELSE RandomIndex(2 * seed + 1, i - 1, Len(Vocabulary))]]

\* lines 90-97: the original values of the features that may not vary
FixedFeaturesValues(features_to_vary, query_instance) ==
    [j \in 1..NumFeatures |->
       IF j \in get_indexes_of_features_to_vary(features_to_vary) THEN <<>>
       ELSE <<query_instance[j]>>]

RemoveAt(rows, ix) == SubSeq(rows, 1, ix - 1) \o SubSeq(rows, ix + 1, Len(rows))

RECURSIVE SampleRows(_, _, _, _)
\* DataFrame.sample(n, random_state=seed): n rows without replacement, in the order
\* the generator draws them
SampleRows(rows, n, seed, k) ==
    IF n = 0 THEN <<>>
    ELSE LET ix == RandomIndex(2 * seed, k, Len(rows))
         IN  <<rows[ix]>> \o SampleRows(RemoveAt(rows, ix), n - 1, seed, k + 1)

\* a selection that fills a short result with invalid samples
SelectPadded(cls, thr, o, cfs, total_CFs, seed) ==
    LET valid == SelectSeq(cfs, LAMBDA x : IsValid(cls, thr, Predict(o, x)))
        invalid == SelectSeq(cfs, LAMBDA x : ~IsValid(cls, thr, Predict(o, x)))
    IN  IF Len(valid) >= total_CFs THEN SampleRows(valid, total_CFs, seed, 0)
        ELSE valid \o SubSeq(invalid, 1, total_CFs - Len(valid))

\* lines 128-138: the rows that make the result
SelectValid(cls, thr, o, cfs, total_CFs, seed) ==
    LET valid == SelectSeq(cfs, LAMBDA x : IsValid(cls, thr, Predict(o, x)))
    IN  IF Len(valid) >= total_CFs THEN SampleRows(valid, total_CFs, seed, 0)
        ELSE valid

\* ExplainerBase.generate_counterfactuals, lines 74-144
SamplingCall(a) ==
    /\ self.class = "sampling"
    /\ CallMayStart
    /\ IF PermittedRangeRaises(di.data, di.permitted_range, a.permitted_range)
       THEN /\ pc' = "raised"
            /\ call' = [NoCall EXCEPT !.n = call.n + 1, !.args = a]
            /\ UNCHANGED <<self, di, rng>>
       ELSE LET d == di.data
                pr == IF a.permitted_range = <<>> THEN di.permitted_range
                      ELSE a.permitted_range[1]
                fixed == FixedFeaturesValues(a.features_to_vary, a.query_instance)
                query_instance == Encode(d, a.query_instance)
                test_pred == Predict(self.model, query_instance)
                target == ResolveTargetSampling(a.desired_class, a.stopping_threshold,
                                                test_pred)
                samples == get_samples(d, pr, fixed, a.random_seed, a.sample_size)
                cfs == [i \in 1..a.sample_size |-> Encode(d, samples[i])]
                valid == SelectSeq(cfs, LAMBDA x : IsValid(target.cls, target.thr,
                                                           Predict(self.model, x)))
                chosen == SelectValid(target.cls, target.thr, self.model, cfs,
                                      a.total_CFs, a.random_seed)
            IN  /\ di' = [di EXCEPT !.permitted_range = pr]
                /\ self' = [self EXCEPT
                              !.minx = IF a.permitted_range = <<>> THEN @
                                       ELSE get_minx(d, pr),
                              !.maxx = IF a.permitted_range = <<>> THEN @
                                       ELSE get_maxx(d, pr),
                              !.cont_minx = IF a.permitted_range = <<>> THEN @
                                            ELSE <<pr[1][1], pr[2][1]>>,
                              !.cont_maxx = IF a.permitted_range = <<>> THEN @
                                            ELSE <<pr[1][2], pr[2][2]>>,
                              !.total_CFs = a.total_CFs,
                              !.fixed_features_values = fixed,
                              !.target_cf_class = target.cls,
                              !.stopping_threshold = target.thr,
                              !.total_cfs_found = Len(valid),
                              !.valid_cfs_found = (Len(valid) >= a.total_CFs),
                              !.final_cfs = chosen,
                              !.cfs_preds = [i \in 1..Len(chosen) |->
                                               Predict(self.model, chosen[i])]]
                /\ call' = [n |-> call.n + 1, args |-> a,
                            query_instance |-> query_instance,
                            test_pred |-> test_pred, population |-> <<>>,
                            generation |-> 0]
                /\ rng' = [seed |-> a.random_seed, pos |-> a.sample_size]
                /\ pc' = "posthoc"
    /\ UNCHANGED <<h_pc, h_in, h_out>>

Init ==
    /\ \E class \in {"genetic", "sampling"}, d \in DataSets, o \in {"x0", "mix"} :
          /\ self = NewExplainer(class, d, o)
          /\ di = [data |-> d, permitted_range |-> DefaultRange(d)]
    /\ call = NoCall
    /\ pc = "idle"
    /\ rng = [seed |-> 0, pos |-> 0]
    /\ h_pc = "off"
    /\ h_in = <<>>
    /\ h_out = <<>>

Next ==
    \/ \E a \in GeneticArgs(di.data), seed \in 0..(NumSeeds - 1) : GeneticCall(a, seed)
    \/ \E a \in SamplingArgs(di.data) : SamplingCall(a)
    \/ Converge
    \/ Evolve
    \/ ScoreRaises
    \/ Posthoc

Spec == Init /\ [][Next]_vars

-----------------------------------------------------------------------------
(* The searches of the refiner applied to bounded inputs, under the guards of
   their call site in do_posthoc_sparsity_enhancement. *)

MaxGrid == 10

\* the k-th value of the input grid, in hundredths
ValAt(k) == (k * NormScale) \div MaxGrid

GridVals == {ValAt(k) : k \in 0..MaxGrid}

\* decimal precision of the field and the width of its permitted range in
\* precision units (cont_maxx - cont_minx)
FieldKinds == {[prec |-> 2, width |-> 100], [prec |-> 1, width |-> 10],
               [prec |-> 1, width |-> 100], [prec |-> 0, width |-> 10]}

\* the targets that target resolution can leave
ResolvedTargets ==
    {ResolveTargetSampling(d, t, 0) : d \in {"0", "1"}, t \in RawThresholds}

RefineInputs ==
    {[cf |-> <<x1, x2>>, query |-> <<q1, 50>>, feat_ix |-> 1,
      prec |-> k.prec, change |-> LinearChange(k.width),
      cls |-> t.cls, thr |-> t.thr, oracle |-> o, tol |-> tol] :
        x1 \in GridVals, x2 \in {20, 80}, q1 \in GridVals, k \in FieldKinds,
        t \in ResolvedTargets, o \in Oracles, tol \in {50, NormScale}}

\* lines 231-241: a search is run on a member that is not strictly outside the
\* target and on a field whose gap is within the tolerance
SearchCalled(c) ==
    /\ ~StrictlyOutside(c.cls, c.thr, Predict(c.oracle, c.cf))
    /\ Abs(c.query[c.feat_ix] - c.cf[c.feat_ix]) <= c.tol

NoResult == [cf |-> <<>>, calls |-> 0]

\* no explainer lives while the pure functions are applied on their own
LifecycleOff ==
    /\ self = <<>>
    /\ di = <<>>
    /\ call = NoCall
    /\ pc = "off"
    /\ rng = <<>>

RefineInit ==
    /\ LifecycleOff
    /\ h_pc = "input"
    /\ h_in \in RefineInputs
    /\ h_out = NoResult

RunLinear ==
    /\ h_pc = "input"
    /\ SearchCalled(h_in)
    /\ h_pc' = "linear"
    /\ h_out' = do_linear_search(h_in, h_in.cf,
                                  h_in.query[h_in.feat_ix] - h_in.cf[h_in.feat_ix],
                                  Predict(h_in.oracle, h_in.cf))
    /\ UNCHANGED <<self, di, call, pc, rng, h_in>>

RunBinary ==
    /\ h_pc = "input"
    /\ SearchCalled(h_in)
    /\ h_pc' = "binary"
    /\ h_out' = do_binary_search(h_in, h_in.cf,
                                  h_in.query[h_in.feat_ix] - h_in.cf[h_in.feat_ix],
                                  Predict(h_in.oracle, h_in.cf))
    /\ UNCHANGED <<self, di, call, pc, rng, h_in>>

RefineNext == RunLinear \/ RunBinary

SpecRefine == RefineInit /\ [][RefineNext]_vars

-----------------------------------------------------------------------------
(* Target resolution of the two strategies applied to bounded inputs. *)

ResolveInputs ==
    [desired_class : DesiredClasses, stopping_threshold : RawThresholds,
     test_pred : GridVals]

ResolveInit ==
    /\ LifecycleOff
    /\ h_pc = "input"
    /\ h_in \in ResolveInputs
    /\ h_out = [cls |-> 0, thr |-> 0]

ResolveSampling ==
    /\ h_pc = "input"
    /\ h_pc' = "sampling"
    /\ h_out' = ResolveTargetSampling(h_in.desired_class, h_in.stopping_threshold,
                                      h_in.test_pred)
    /\ UNCHANGED <<self, di, call, pc, rng, h_in>>

ResolveGenetic ==
    /\ h_pc = "input"
    /\ h_pc' = "genetic"
    /\ h_out' = ResolveTargetGenetic(h_in.desired_class, h_in.stopping_threshold,
                                     h_in.test_pred)
    /\ UNCHANGED <<self, di, call, pc, rng, h_in>>

ResolveNext == ResolveSampling \/ ResolveGenetic

SpecResolve == ResolveInit /\ [][ResolveNext]_vars

-----------------------------------------------------------------------------
(* mate applied to bounded inputs. *)

MaxBase == 9

\* two pairs of parents with distinguishable values; sets of two members
MateParents ==
    {[k1 |-> <<<<11, 21, 0>>, <<12, 22, 0>>>>,
      k2 |-> <<<<81, 71, 100>>, <<82, 72, 100>>>>],
     [k1 |-> <<<<95, 5, 100>>, <<60, 40, 0>>>>,
      k2 |-> <<<<3, 97, 0>>, <<45, 55, 100>>>>]}

\* the bounds of the fields: the training range, and a narrower permitted range
MateDomains ==
    {[minx |-> <<0, 0, 0>>, maxx |-> <<NormScale, NormScale, NormScale>>],
     [minx |-> <<20, 0, 0>>, maxx |-> <<70, NormScale, NormScale>>]}

MateInputs ==
    {[k1 |-> p.k1, k2 |-> p.k2, total_CFs |-> n, minx |-> m.minx, maxx |-> m.maxx,
      seed |-> seed, base |-> base] :
        p \in MateParents, n \in 1..2, m \in MateDomains,
        seed \in 0..(NumSeeds - 1), base \in 0..MaxBase}

MateInit ==
    /\ LifecycleOff
    /\ h_pc = "input"
    /\ h_in \in MateInputs
    /\ h_out = <<>>

\* mate reads its parents and builds the child from new lists
RunMate ==
    /\ h_pc = "input"
    /\ h_pc' = "mate"
    /\ h_out' = mate(h_in, h_in.k1, h_in.k2, h_in.seed, h_in.base)
    /\ UNCHANGED <<self, di, call, pc, rng, h_in>>

MateNext == RunMate

SpecMate == MateInit /\ [][MateNext]_vars

-----------------------------------------------------------------------------
(* The loss functions applied to bounded inputs. *)

MaxSetSize == 3

LossVectors == {<<20, 60, 0>>, <<80, 40, NormScale>>, <<50, 50, NormScale>>}

\* proximity_weight, diversity_weight, categorical_penalty, in tenths
LossWeights == {<<5, 10, 1>>, <<10, 10, 10>>, <<0, 5, 0>>}

\* the attributes of the explainer that the loss functions read, and a set cfs
LossInputs ==
    {[model |-> "x0", yloss_type |-> "log_loss", target_cf_class |-> cls,
      total_CFs |-> n, feature_weights_list |-> FeatureWeightsList("unit", fw),
      x1 |-> <<20, 60, 0>>, minx |-> <<0, 0, 0>>,
      proximity_weight |-> hw[1], diversity_weight |-> hw[2],
      categorical_penalty |-> hw[3], diversity_loss_type |-> dt, cfs |-> cfs] :
        cls \in {0, 1}, n \in 1..MaxSetSize, fw \in {"inverse_mad", "ones"},
        hw \in LossWeights, dt \in {"dpp_style:inverse_dist", "avg_dist"},
        cfs \in UNION {[1..m -> LossVectors] : m \in 1..MaxSetSize}}

\* the sets the model can score: of total_CFs members, and of at most two for
\* the determinant
LossInit ==
    /\ LifecycleOff
    /\ h_pc = "input"
    /\ h_in \in LossInputs
    /\ Len(h_in.cfs) = h_in.total_CFs
    /\ h_in.diversity_loss_type = "dpp_style:inverse_dist" => h_in.total_CFs <= 2
    /\ h_out = 0

RunDiversity ==
    /\ h_pc = "input"
    /\ h_pc' = "diversity"
    /\ h_out' = compute_diversity_loss(h_in.feature_weights_list,
                                       h_in.diversity_loss_type, h_in.total_CFs,
                                       h_in.cfs)
    /\ UNCHANGED <<self, di, call, pc, rng, h_in>>

\* dpp_style: the kernel it builds and its determinant
RunDpp ==
    /\ h_pc = "input"
    /\ h_in.diversity_loss_type = "dpp_style:inverse_dist"
    /\ h_in.total_CFs = 2
    /\ h_pc' = "dpp"
    /\ h_out' = [kernel |-> [i \in 1..2 |-> [j \in 1..2 |->
                               DppEntry(h_in.feature_weights_list, h_in.cfs, i, j)]],
                 det |-> dpp_style(h_in.feature_weights_list, h_in.cfs)]
    /\ UNCHANGED <<self, di, call, pc, rng, h_in>>

RunProximity ==
    /\ h_pc = "input"
    /\ h_pc' = "proximity"
    /\ h_out' = compute_proximity_loss(h_in.feature_weights_list, h_in.total_CFs,
                                       h_in.x1, Len(h_in.minx), h_in.cfs)
    /\ UNCHANGED <<self, di, call, pc, rng, h_in>>

RunLoss ==
    /\ h_pc = "input"
    /\ h_pc' = "loss"
    /\ h_out' = compute_loss(h_in.model, h_in, h_in.cfs)
    /\ UNCHANGED <<self, di, call, pc, rng, h_in>>

LossNext == RunDiversity \/ RunDpp \/ RunProximity \/ RunLoss

SpecLoss == LossInit /\ [][LossNext]_vars

-----------------------------------------------------------------------------
(* One generation step applied to a population of twenty sets. *)

GenerationSize == 20

GenerationSeeds == 4

\* a population of random sets, seeded as do_cf_initializations seeds it:
\* every field uniform between its bounds
RandomPopulation(seed, total_CFs, size) ==
    [k \in 1..size |->
       [i \in 1..total_CFs |->
          [j \in 1..NumFeatures |->
             RandomUniform(2 * seed,
                           ((k - 1) * total_CFs + (i - 1)) * NumFeatures + (j - 1),
                           0, NormScale)]]]

\* the attributes of the explainer that scoring and mating read
GenerationInputs ==
    {[model |-> o, yloss_type |-> "log_loss", target_cf_class |-> cls,
      total_CFs |-> n, feature_weights_list |-> FeatureWeightsList("unit", "inverse_mad"),
      x1 |-> <<20, 60, 0>>, minx |-> <<0, 0, 0>>,
      maxx |-> <<NormScale, NormScale, NormScale>>,
      proximity_weight |-> hw[1], diversity_weight |-> hw[2],
      categorical_penalty |-> hw[3], diversity_loss_type |-> "dpp_style:inverse_dist",
      seed |-> seed, population |-> RandomPopulation(seed, n, GenerationSize)] :
        o \in {"x0", "mix"}, cls \in {0, 1}, n \in 1..2, hw \in LossWeights,
        seed \in 0..(GenerationSeeds - 1)}

GenerationInit ==
    /\ LifecycleOff
    /\ h_pc = "input"
    /\ h_in \in GenerationInputs
    /\ h_out = <<>>

\* the body of the loop after the test of the best set: the next population
RunGeneration ==
    /\ h_pc = "input"
    /\ h_pc' = "generation"
    /\ h_out' = GenerationOfSize(h_in, h_in.population, h_in.seed,
                                 GenerationSize * h_in.total_CFs * NumFeatures,
                                 GenerationSize)
    /\ UNCHANGED <<self, di, call, pc, rng, h_in>>

GenerationNext == RunGeneration

SpecGeneration == GenerationInit /\ [][GenerationNext]_vars

-----------------------------------------------------------------------------
(* get_continuous_samples applied to bounded ranges. *)

MaxLow == 3

MaxWidth == 4

\* low and high in precision units; the decimal precision of the field
SampleInputs ==
    {[low |-> low, high |-> low + width, precision |-> p, seed |-> seed] :
        low \in 0..MaxLow, width \in 0..MaxWidth, p \in 0..2,
        seed \in 0..(NumSeeds - 1)}

SampleInit ==
    /\ LifecycleOff
    /\ h_pc = "input"
    /\ h_in \in SampleInputs
    /\ h_out = <<>>

RunSamples ==
    /\ h_pc = "input"
    /\ h_pc' = "samples"
    /\ h_out' = get_continuous_samples(h_in.low, h_in.high, h_in.precision,
                                       SampleSize, h_in.seed)
    /\ UNCHANGED <<self, di, call, pc, rng, h_in>>

SampleNext == RunSamples

SpecSamples == SampleInit /\ [][SampleNext]_vars

-----------------------------------------------------------------------------
(* The refiner applied to bounded sets of two members. *)

\* values of the continuous fields of a member, hundredths
MemberVals == {0, 30, 40, 50, 70, NormScale}

RefinerQuery == <<50, 50, 0>>

\* the attributes of the explainer the refiner reads, the data set, and the
\* arguments of the call
PosthocInputs ==
    {[model |-> o, target_cf_class |-> t.cls, stopping_threshold |-> t.thr,
      cont_minx |-> OrgMin(d), cont_maxx |-> OrgMax(d),
      total_random_inits |-> 0, total_CFs |-> n, data |-> d,
      final_cfs_sparse |-> <<<<x1, x2, x3>>, m2>>,
      query_instance |-> RefinerQuery, algorithm |-> algorithm] :
        o \in Oracles, t \in ResolvedTargets, d \in DataSets, n \in 1..2,
        x1 \in MemberVals, x2 \in MemberVals, x3 \in {0, NormScale},
        m2 \in {<<40, 70, NormScale>>, <<70, 30, 0>>},
        algorithm \in {"linear", "binary"}}

PosthocInit ==
    /\ LifecycleOff
    /\ h_pc = "input"
    /\ h_in \in PosthocInputs
    /\ h_out = <<>>

RunPosthoc ==
    /\ h_pc = "input"
    /\ h_pc' = "refined"
    /\ h_out' = do_posthoc_sparsity_enhancement(h_in, h_in.data, h_in.final_cfs_sparse,
                    [i \in 1..Len(h_in.final_cfs_sparse) |->
                       Predict(h_in.model, h_in.final_cfs_sparse[i])],
                    h_in.query_instance, h_in.algorithm)
    /\ UNCHANGED <<self, di, call, pc, rng, h_in>>

PosthocNext == RunPosthoc

SpecPosthoc == PosthocInit /\ [][PosthocNext]_vars

-----------------------------------------------------------------------------
(* The linear search applied to gaps that are not multiples of the step. *)

\* gaps between the searched field and the query, hundredths: multiples of the
\* steps 0.01 and 0.1, and gaps that are not multiples of 0.1
StartGaps == {0, 3, 5, 8, 10, 13, 17, 20}

LinearInputs ==
    {c \in {[cf |-> <<q1 + s * g, x2>>, query |-> <<q1, 50>>, feat_ix |-> 1,
             prec |-> k.prec, change |-> LinearChange(k.width),
             cls |-> t.cls, thr |-> t.thr, oracle |-> o, tol |-> tol] :
               q1 \in {0, 50, NormScale}, g \in StartGaps, s \in {-1, 1},
               x2 \in {20, 80}, k \in FieldKinds,
               t \in ResolvedTargets, o \in Oracles, tol \in {50, NormScale}} :
        0 <= c.cf[1] /\ c.cf[1] <= NormScale}

LinearInit ==
    /\ LifecycleOff
    /\ h_pc = "input"
    /\ h_in \in LinearInputs
    /\ h_out = NoResult

SpecLinear == LinearInit /\ [][RunLinear]_vars

-----------------------------------------------------------------------------
(* Properties. *)

\* the genetic search has left its generation loop
LeftLoop == self.class = "genetic" /\ pc \in {"posthoc", "returned"}

\* member i of final_cfs is valid for the resolved target
FinalValid(i) ==
    IsValid(self.target_cf_class, self.stopping_threshold,
            Predict(self.model, self.final_cfs[i]))

\* C1: whenever the genetic search has left its generation loop, final_cfs holds
\* exactly the requested total_CFs counterfactuals, and each of them is valid for
\* the resolved class and threshold.
C1_RequestedCountAllValid ==
    LeftLoop =>
        /\ Len(self.final_cfs) = call.args.total_CFs
        /\ \A i \in 1..Len(self.final_cfs) : FinalValid(i)

\* the part of C1 the code keeps: every reported counterfactual is valid
C1_AllValid == LeftLoop => \A i \in 1..Len(self.final_cfs) : FinalValid(i)

\* the refiner ran in the call that just returned
Refined == pc = "returned" /\ ~self.sparse_is_none

\* C2: after the sparsity refiner ran (linear or binary), every counterfactual
\* that was valid on entry is still valid in the refined set.
C2_RefinerKeepsValidity ==
    Refined =>
        \A i \in 1..Len(self.final_cfs) :
            FinalValid(i) =>
                IsValid(self.target_cf_class, self.stopping_threshold,
                        Predict(self.model, self.final_cfs_sparse[i]))

\* the target the claim describes for an input of target resolution
ClaimedClass(in) ==
    IF in.desired_class = "opposite" THEN 1 - RoundProb(in.test_pred)
    ELSE ClassNumber(in.desired_class)

ClaimedThreshold(in) ==
    IF ClaimedClass(in) = 0 /\ 2 * in.stopping_threshold > NormScale THEN ForcedLow
    ELSE IF ClaimedClass(in) = 1 /\ 2 * in.stopping_threshold < NormScale
    THEN ForcedHigh
    ELSE in.stopping_threshold

\* C3: either strategy resolves "opposite" to 1 - round(p0), replaces the
\* threshold by 0.25 exactly when the class is 0 and the threshold is above 0.5,
\* by 0.75 exactly when the class is 1 and the threshold is below 0.5, and keeps
\* it otherwise; so both strategies resolve the same pair for the same inputs.
C3_SameResolution ==
    h_pc \in {"sampling", "genetic"} =>
        /\ h_out.cls = ClaimedClass(h_in)
        /\ h_out.thr = ClaimedThreshold(h_in)

C3_Witness ==
    /\ h_pc = "genetic"
    /\ h_in.desired_class = "opposite"
    /\ h_in.stopping_threshold < ForcedHigh
    /\ h_out.thr = ForcedHigh

\* the scenario of C4: continuous fields over [0,1] with precision 2, the oracle
\* predict(x) = x[0], desired_class 1, stopping_threshold 0.5, total_CFs 2, and
\* the genetic search has succeeded
BoundaryScenario ==
    /\ LeftLoop
    /\ di.data = "unit"
    /\ self.model = "x0"
    /\ call.args.desired_class = "1"
    /\ call.args.stopping_threshold = 50
    /\ call.args.total_CFs = 2
    /\ call.args.algorithm = "DiverseCF"

\* C4 as stated: in the boundary scenario the threshold is forced to 0.75 and the
\* search returns two vectors whose first field is at least 0.75.
C4_ForcedTo75 ==
    BoundaryScenario =>
        /\ self.stopping_threshold = ForcedHigh
        /\ Len(self.final_cfs) = 2
        /\ \A i \in 1..Len(self.final_cfs) : self.final_cfs[i][1] >= ForcedHigh

\* C4, amended: in the boundary scenario the threshold stays 0.5 (0.5 is not below
\* 0.5) and the search returns two vectors whose first field is at least 0.5.
C4_StaysAtHalf ==
    BoundaryScenario =>
        /\ self.stopping_threshold = 50
        /\ Len(self.final_cfs) = 2
        /\ \A i \in 1..Len(self.final_cfs) : self.final_cfs[i][1] >= 50

C4_Witness ==
    /\ BoundaryScenario
    /\ \E i \in 1..Len(self.final_cfs) : self.final_cfs[i][1] < ForcedHigh

\* the fields that features_to_vary of the running call leaves out
FixedFields ==
    (1..NumFeatures) \ get_indexes_of_features_to_vary(call.args.features_to_vary)

\* C5: every candidate of a search holds the query's value in every field that is
\* not in features_to_vary: the sets of every generation of the genetic search,
\* and the samples the sampling search reports.
C5_FixedFieldsPinned ==
    /\ (self.class = "genetic" /\ pc = "loop") =>
          \A k \in 1..Len(call.population) :
             \A i \in 1..Len(call.population[k]) :
                \A j \in FixedFields :
                   call.population[k][i][j] = call.query_instance[j]
    /\ (self.class = "sampling" /\ pc = "posthoc") =>
          \A i \in 1..Len(self.final_cfs) :
             \A j \in FixedFields : self.final_cfs[i][j] = call.query_instance[j]

\* the part of C5 the code keeps: the sampling search pins the fixed fields
C5_SamplingPinned ==
    (self.class = "sampling" /\ pc = "posthoc") =>
        \A i \in 1..Len(self.final_cfs) :
           \A j \in FixedFields : self.final_cfs[i][j] = call.query_instance[j]

\* the sampling search has built its result from its single batch
Sampled == self.class = "sampling" /\ pc = "posthoc"

\* the batch of the running sampling call, encoded
Batch ==
    LET a == call.args
        samples == get_samples(di.data, di.permitted_range,
                               FixedFeaturesValues(a.features_to_vary, a.query_instance),
                               a.random_seed, a.sample_size)
    IN  [i \in 1..a.sample_size |-> Encode(di.data, samples[i])]

\* the valid samples of the batch
ValidInBatch ==
    {i \in DOMAIN Batch : IsValid(self.target_cf_class, self.stopping_threshold,
                                  Predict(self.model, Batch[i]))}

\* C6: with v the number of valid samples of the batch: if v >= total_CFs the
\* result has exactly total_CFs members, all valid samples, and valid_cfs_found
\* is true; if v < total_CFs the result is the v valid samples and no other,
\* valid_cfs_found is false, and the call has not raised.
C6_SamplingSizeAndFlag ==
    /\ Sampled =>
          LET v == Cardinality(ValidInBatch)
              total_CFs == call.args.total_CFs
          IN  /\ self.total_cfs_found = v
              /\ \A k \in 1..Len(self.final_cfs) :
                    /\ FinalValid(k)
                    /\ \E i \in ValidInBatch : Batch[i] = self.final_cfs[k]
              /\ v >= total_CFs =>
                    Len(self.final_cfs) = total_CFs /\ self.valid_cfs_found
              /\ v < total_CFs =>
                    /\ Len(self.final_cfs) = v
                    /\ \A i \in ValidInBatch :
                          \E k \in 1..Len(self.final_cfs) : self.final_cfs[k] = Batch[i]
                    /\ ~self.valid_cfs_found
    /\ (self.class = "sampling" /\ pc = "raised") => call.args.permitted_range # <<>>

C6_Witness ==
    /\ Sampled
    /\ self.total_cfs_found >= 1
    /\ self.total_cfs_found < call.args.total_CFs
    /\ Len(self.final_cfs) = self.total_cfs_found

OverrideOutside ==
    /\ call.n > 0
    /\ call.args.permitted_range # <<>>
    /\ ~check_features_range(di.data, call.args.permitted_range[1])

\* C8: a call whose permitted_range override lies outside the training range has
\* raised, and the stored permitted range and the bounds are as they were: within
\* the training range.
C8_OutsideOverrideRejected ==
    OverrideOutside =>
        /\ pc = "raised"
        /\ check_features_range(di.data, di.permitted_range)
        /\ \A j \in {1, 2} : self.minx[j] >= 0 /\ self.maxx[j] <= NormScale

\* every member of the best-loss set of the current generation is valid
BestSetValid ==
    LET best == CurrentBest(self, call.population)
    IN  \A i \in 1..Len(best) :
           IsValid(self.target_cf_class, self.stopping_threshold,
                   Predict(self.model, best[i]))

\* C9: a generation whose scoring completes leaves the loop exactly when every
\* member of its best-loss set is valid, with valid_cfs_found true and the
\* best-loss set as the result; otherwise the search stays in the loop with the
\* next generation.  (A scoring that raises ends the call with the exception.)
C9_LoopStopsOnlyOnSuccess ==
    [][(pc = "loop" /\ ~ScoringRaises(self, call.population)) =>
          /\ (pc' = "posthoc") <=> BestSetValid
          /\ pc' = "posthoc" =>
                /\ self'.valid_cfs_found
                /\ self'.final_cfs = CurrentBest(self, call.population)
          /\ pc' # "posthoc" =>
                /\ pc' = "loop"
                /\ call'.generation = call.generation + 1]_vars

C9_Witness ==
    /\ self.class = "genetic"
    /\ pc = "posthoc"
    /\ call.generation >= 2
    /\ self.valid_cfs_found

\* the decision boundary of a monotone oracle along the searched field
Boundary(c) == IF c.oracle = "x0" THEN c.thr ELSE NormScale - c.thr

\* the binary search ran with a monotone oracle on a valid counterfactual whose
\* query value is not strictly on the desired side: the boundary lies between
\* the field's value and the query's
BinaryCase ==
    /\ h_pc = "binary"
    /\ h_in.oracle \in MonotoneOracles
    /\ ~StrictlyInside(h_in.cls, h_in.thr,
                       Predict(h_in.oracle,
                               SetField(h_in.cf, h_in.feat_ix, h_in.query[h_in.feat_ix])))

\* the gap between the field and the query, in precision units
GapUnits(c) == Abs(c.query[c.feat_ix] - c.cf[c.feat_ix]) \div PrecUnit(c.prec)

\* the part of C10 the code keeps: the search ends, after a number of oracle
\* calls that is logarithmic in the gap counted in precision units
C10_LogarithmicCalls ==
    BinaryCase => h_out.calls <= Log2Ceil(GapUnits(h_in) + 1) + 2

\* C10: with a monotone oracle the binary search ends after logarithmically many
\* oracle calls and leaves the field within one precision unit of the decision
\* boundary.
C10_BinaryNearBoundary ==
    BinaryCase =>
        /\ h_out.calls <= Log2Ceil(GapUnits(h_in) + 1) + 2
        /\ Abs(h_out.cf[h_in.feat_ix] - Boundary(h_in)) <= PrecUnit(h_in.prec)

\* the draw that decides field j of member i of the child
MateDraw(i, j) ==
    RandomPercent(2 * h_in.seed + 1, h_in.base + (i - 1) * NumFeatures + (j - 1))

\* C11: the child of mate has total_CFs members with the parents' number of
\* fields, and field j of member i follows its own draw r: parent 1's value if
\* r < 0.45, parent 2's if 0.45 <= r < 0.90, else a value of the field's domain.
C11_FieldWiseMating ==
    h_pc = "mate" =>
        /\ Len(h_out) = h_in.total_CFs
        /\ \A i \in 1..Len(h_out) :
              /\ Len(h_out[i]) = Len(h_in.k1[i])
              /\ Len(h_out[i]) = Len(h_in.k2[i])
              /\ \A j \in 1..Len(h_out[i]) :
                    /\ MateDraw(i, j) < 45 => h_out[i][j] = h_in.k1[i][j]
                    /\ (45 <= MateDraw(i, j) /\ MateDraw(i, j) < 90) =>
                          h_out[i][j] = h_in.k2[i][j]
                    /\ MateDraw(i, j) >= 90 =>
                          /\ h_in.minx[j] <= h_out[i][j]
                          /\ h_out[i][j] <= h_in.maxx[j]

\* a child that took a field from each parent and a fresh value
C11_Witness ==
    /\ h_pc = "mate"
    /\ h_in.total_CFs = 2
    /\ \E i \in 1..2, j \in 1..NumFeatures : h_out[i][j] = h_in.k1[i][j]
    /\ \E i \in 1..2, j \in 1..NumFeatures : h_out[i][j] = h_in.k2[i][j]
    /\ \E i \in 1..2, j \in 1..NumFeatures :
          /\ MateDraw(i, j) >= 90
          /\ h_out[i][j] # h_in.k1[i][j]
          /\ h_out[i][j] # h_in.k2[i][j]

\* C12: for a set of one member the diversity loss is exactly 0, whatever the
\* diversity_loss_type and the weights, and the combined loss is the weighted sum
\* of the three other parts.
C12_NoDiversityForOne ==
    /\ (h_pc = "diversity" /\ h_in.total_CFs = 1) => h_out = 0
    /\ (h_pc = "loss" /\ h_in.total_CFs = 1) =>
          h_out = 10 * compute_yloss(h_in.model, h_in.yloss_type,
                                     h_in.target_cf_class, 1, h_in.cfs)
                  + h_in.proximity_weight
                      * (IF h_in.proximity_weight > 0
                         THEN compute_proximity_loss(h_in.feature_weights_list, 1,
                                                     h_in.x1, Len(h_in.minx), h_in.cfs)
                         ELSE 0)
                  + h_in.categorical_penalty * compute_regularization_loss(1, h_in.cfs)

C12_Witness ==
    /\ h_pc = "loss"
    /\ h_in.total_CFs = 1
    /\ h_in.diversity_weight > 0
    /\ h_in.diversity_loss_type = "dpp_style:inverse_dist"
    /\ h_out > 0

\* C13: for two identical vectors the inverse_dist kernel is
\* [[1.0001, 1.0], [1.0, 1.0001]] (four decimals) and dpp_style returns its
\* determinant 0.00020001 (eight decimals).
C13_KernelOfIdenticalPair ==
    (h_pc = "dpp" /\ h_in.cfs[1] = h_in.cfs[2]) =>
        /\ h_out.kernel = <<<<10001, 10000>>, <<10000, 10001>>>>
        /\ h_out.det = 20001

C13_Witness ==
    /\ h_pc = "dpp"
    /\ h_in.cfs[1] = h_in.cfs[2]
    /\ h_out.det = 20001

\* the sum over the members of the weighted distance to the query, four decimals
DistanceSum ==
    SumTo([i \in 1..h_in.total_CFs |->
             compute_dist(h_in.feature_weights_list, h_in.cfs[i], h_in.x1)],
          h_in.total_CFs)

\* C16: the proximity loss is the mean over the set of the weighted distance to
\* the query, divided by the number of dimensions.
C16_ProximityIsMean ==
    h_pc = "proximity" =>
        h_out = (DistanceSum \div h_in.total_CFs) \div Len(h_in.minx)

\* what compute_proximity_loss returns: the sum over the set, divided by the
\* number of dimensions
C16_ProximityIsSum ==
    h_pc = "proximity" => h_out = DistanceSum \div Len(h_in.minx)


\* the loop is about to build the next generation of call.population
Reproducing ==
    /\ pc = "loop"
    /\ ~ScoringRaises(self, call.population)
    /\ ~AllValid(self, CurrentBest(self, call.population))
    /\ call.generation < MaxGenerations

\* the places in call.population of the parents of the ChildCount children
ParentIndexes ==
    {ChooseParent(call.population, rng.seed,
                  rng.pos + (c - 1) * ChildDraws(self.total_CFs) + p) :
        c \in 1..ChildCount, p \in {0, 1}}

\* C14: each parent of each child is one of the best 50% of the population by
\* loss: its loss is at most the loss of the set ranked int(50%) when the
\* population is sorted ascending by loss.
C14_ParentsFromFittestHalf ==
    Reproducing =>
        LET fitness == PopulationFitness(self, call.population)
        IN  \A k \in ParentIndexes : fitness[k] <= fitness[AtRank(fitness, ParentPool)]

\* what lines 254-255 do: each parent is one of the first int(50%) sets of the
\* population as it stands, whatever their loss
C14_ParentsFromFirstHalf ==
    Reproducing => \A k \in ParentIndexes : k <= ParentPool


\* the least loss of a scored population
LeastLoss(fitness) == fitness[BestIndex(fitness)]

\* the sets at the elite places of the next population are the sets at the
\* places f[1], f[2], ... of the population, which are its sets of least loss
\* in ascending order
ElitesAre(f, elites, population, fitness, next) ==
    /\ \A a, b \in 1..elites : a < b => f[a] # f[b] /\ fitness[f[a]] <= fitness[f[b]]
    /\ \A n \in 1..elites : next[n] = population[f[n]]
    /\ \A m \in 1..Len(population) :
          (\A n \in 1..elites : f[n] # m) => fitness[m] >= fitness[f[elites]]

\* C15: the first int(10%) sets of the next population are the int(10%) sets of
\* least loss of the current population, in ascending order of loss and
\* unmodified, and the least loss of the next population is not larger than the
\* least loss of the current one.
C15_Elitism ==
    h_pc = "generation" =>
        LET size == Len(h_in.population)
            elites == (10 * size) \div 100
            fitness == FitnessUpTo(h_in, h_in.population, size)
            next_fitness == FitnessUpTo(h_in, h_out, Len(h_out))
        IN  /\ \E f \in [1..elites -> 1..size] :
                  ElitesAre(f, elites, h_in.population, fitness, h_out)
            /\ LeastLoss(next_fitness) <= LeastLoss(fitness)

\* two elites of different loss, neither of them at the first two places of
\* the population
C15_Witness ==
    /\ h_pc = "generation"
    /\ LET size == Len(h_in.population)
           fitness == FitnessUpTo(h_in, h_in.population, size)
       IN  /\ (10 * size) \div 100 >= 2
           /\ AtRank(fitness, 1) > 2
           /\ AtRank(fitness, 2) > 2
           /\ fitness[AtRank(fitness, 1)] < fitness[AtRank(fitness, 2)]
           /\ h_out[1] = h_in.population[AtRank(fitness, 1)]
           /\ h_out[2] = h_in.population[AtRank(fitness, 2)]


\* C17: every value get_continuous_samples returns lies in [low, high] (the
\* values are counted in precision units, so each is a multiple of 10^-p).
C17_SamplesInsideRange ==
    h_pc = "samples" =>
        \A i \in 1..Len(h_out) :
            /\ h_out[i] \in Int
            /\ h_in.low <= h_out[i]
            /\ h_out[i] <= h_in.high

\* what lines 394-398 give: integer draws lie in [low, high]; rounded draws lie
\* in [low, high + 10^-p]
C17_SamplesAtMostOneUnitAbove ==
    h_pc = "samples" =>
        \A i \in 1..Len(h_out) :
            /\ h_in.low <= h_out[i]
            /\ h_out[i] <= h_in.high + (IF h_in.precision = 0 THEN 0 ELSE 1)


\* the counterfactual of the search with the field set to the query's value
AtQuery == SetField(h_in.cf, h_in.feat_ix, h_in.query[h_in.feat_ix])

\* C18: when the prediction with the field at the query's value is valid
\* (class 0: prediction <= threshold, class 1: prediction >= threshold), the
\* binary search leaves the field at the query's value after that one test.
C18_QueryValueAccepted ==
    (h_pc = "binary" /\ IsValid(h_in.cls, h_in.thr, Predict(h_in.oracle, AtQuery))) =>
        /\ h_out.cf = AtQuery
        /\ h_out.calls = 1

\* what lines 431-432 do: the query's value is accepted when the prediction is
\* strictly on the desired side of the threshold
C18_StrictlyValidAccepted ==
    (h_pc = "binary"
        /\ StrictlyInside(h_in.cls, h_in.thr, Predict(h_in.oracle, AtQuery))) =>
            /\ h_out.cf = AtQuery
            /\ h_out.calls = 1


\* member i of the set the refiner was given is invalid
InvalidOnEntry(i) ==
    ~IsValid(h_in.target_cf_class, h_in.stopping_threshold,
             Predict(h_in.model, h_in.final_cfs_sparse[i]))

\* the gap of continuous field j of member i on entry, and its tolerance: the
\* quantile capped by the MAD
EntryGap(i, j) == Abs(h_in.query_instance[j] - h_in.final_cfs_sparse[i][j])

FieldTolerance(j) == Min(Quantiles(h_in.data)[j], Mads(h_in.data)[j])

\* the continuous field of larger tolerance (the first one on a tie), and the
\* other one
WiderField == IF FieldTolerance(1) >= FieldTolerance(2) THEN 1 ELSE 2

\* C19: the refiner leaves every member that is invalid on entry as it is, leaves
\* every continuous field whose gap exceeds its tolerance as it is, leaves the
\* categorical field as it is, and a member it refines is the result of
\* refining the field of larger tolerance first and the other field second.
C19_RefinerFrame ==
    h_pc = "refined" =>
        \A i \in 1..Len(h_in.final_cfs_sparse) :
            LET before == h_in.final_cfs_sparse[i]
                after == h_out.cfs[i]
            IN  /\ InvalidOnEntry(i) => after = before /\ h_out.preds[i] = Predict(h_in.model, before)
                /\ \A j \in {1, 2} : EntryGap(i, j) > FieldTolerance(j) => after[j] = before[j]
                /\ after[3] = before[3]
                /\ (~InvalidOnEntry(i) /\ i <= RefinedCount(h_in, h_in.final_cfs_sparse)) =>
                      after = RefineField(h_in, h_in.data, h_in.algorithm,
                                          RefineField(h_in, h_in.data, h_in.algorithm,
                                                      before, h_in.query_instance,
                                                      WiderField),
                                          h_in.query_instance, 3 - WiderField)

\* a set with a member that is invalid on entry and a member the refiner changed
\* in one field only, its other field being too far from the query
C19_Witness ==
    /\ h_pc = "refined"
    /\ InvalidOnEntry(2)
    /\ ~InvalidOnEntry(1)
    /\ h_out.cfs[1] # h_in.final_cfs_sparse[1]
    /\ \E j \in {1, 2} : EntryGap(1, j) > FieldTolerance(j)
    /\ WiderField = 2


\* the gap between the searched field and the query on entry and on return
GapBefore == Abs(h_in.query[h_in.feat_ix] - h_in.cf[h_in.feat_ix])

GapAfter == Abs(h_in.query[h_in.feat_ix] - h_out.cf[h_in.feat_ix])

\* C20: the linear search ends, and on return the gap between the field and the
\* query is not larger than it was on entry.
C20_LinearNeverFarther ==
    h_pc = "linear" =>
        /\ h_out.calls <= GapBefore \div h_in.change + 1
        /\ GapAfter <= GapBefore

\* what lines 406-419 give: the search ends, and on return the gap is not larger
\* than on entry or smaller than one step
C20_LinearWithinOneStep ==
    h_pc = "linear" =>
        /\ h_out.calls <= GapBefore \div h_in.change + 1
        /\ GapAfter <= GapBefore \/ GapAfter < h_in.change


\* the loss weights that compute_loss reads are attributes of the explainer
WeightsDefined ==
    {"proximity_weight", "diversity_weight", "categorical_penalty"} \subseteq self.attrs

\* the loss weights of the explainer are the ones the running call passed
WeightsOfCall ==
    /\ self.proximity_weight = call.args.proximity_weight
    /\ self.diversity_weight = call.args.diversity_weight
    /\ self.categorical_penalty = call.args.categorical_penalty

\* C21: whenever a genetic call scores a population, proximity_weight,
\* diversity_weight and categorical_penalty are defined and are the values the
\* call passed.
C21_LossWeightsNeverStale ==
    (self.class = "genetic" /\ pc = "loop") => WeightsDefined /\ WeightsOfCall

\* what lines 344-353 give: the weights, once defined, are the values the call
\* passed; a call that passes the initial tuple to an explainer whose weights
\* were never set leaves them undefined
C21_DefinedWeightsCurrent ==
    (self.class = "genetic" /\ pc = "loop") =>
        /\ WeightsDefined => WeightsOfCall
        /\ ~WeightsDefined =>
              <<call.args.proximity_weight, call.args.diversity_weight,
                call.args.categorical_penalty>> = <<10, 10, 10>>


\* the population a generation starts with
AtGenerationStart == self.class = "genetic" /\ pc = "loop"

\* every set of the population has as many vectors as the sets of the running
\* call (self.total_CFs as do_cf_initializations set it)
SetsOfCallSize ==
    \A k \in 1..Len(call.population) : Len(call.population[k]) = self.total_CFs

\* every vector of the population lies within the bounds of the running call
VectorsInDomain ==
    \A k \in 1..Len(call.population) :
       \A i \in 1..Len(call.population[k]) :
          \A j \in 1..NumFeatures :
             /\ self.minx[j] <= call.population[k][i][j]
             /\ call.population[k][i][j] <= self.maxx[j]

\* C22: at the start of every generation the population holds population_size
\* sets, every set holds the running call's number of vectors, and every vector
\* lies within [minx, maxx] of the running call.
C22_PopulationShape ==
    AtGenerationStart =>
        /\ Len(call.population) = population_size
        /\ SetsOfCallSize
        /\ VectorsInDomain

\* the part of C22 the code keeps: the population always holds population_size
\* sets, all of one size
C22_PopulationCount ==
    AtGenerationStart =>
        /\ Len(call.population) = population_size
        /\ \A k \in 1..Len(call.population) :
              Len(call.population[k]) = Len(call.population[1])

====
